---- MODULE Spec2Model ----
(***************************************************************************)
(* The price-stream hook usePolymarketWebSocket and the server-sent-event  *)
(* relay it talks to.  The repository holds two revisions of the hook: the *)
(* SSE revision (src/hooks/usePolymarketWebSocket.js, an EventSource on    *)
(* the relay /api/ws-stream) and the direct-WebSocket revision             *)
(* (src/unnamed/part_007).  Both keep the same state and export the same   *)
(* operations.  Spec runs the SSE revision, SpecWS the WebSocket one.      *)
(***************************************************************************)
EXTENDS Integers, Sequences, FiniteSets

VARIABLES
    conns,                 \* connection attempts that can still deliver events,
                           \* oldest first
    eventSourceRef,        \* sse: index in conns of the EventSource held, 0 = null
    wsRef,                 \* ws: index in conns of the WebSocket held, 0 = null
    prices,                \* useState prices: slug -> latest price, 0 = absent;
                           \* slug -> entry written by the later revision's
                           \* frame handler where that handler is modelled
    events,                \* useState events: slug -> event info stored
    connected,             \* useState connected
    error,                 \* useState error, "null" = null
    timers,                \* pending setTimeout callbacks, oldest first
    reconnectTimeoutRef,   \* index in timers of the timer held, 0 = null,
                           \* -1 = the id of a timer that has fired
    reconnectAttemptsRef,  \* reconnect attempt counter
    currentSlugsRef,       \* slugs of the latest connection request
    nCalls,                \* caller operations so far
    prevUpd,               \* history: the arguments of the updateSubscription
                           \* calls that were the latest steps, at most the
                           \* last two, oldest first
    lastReq,               \* history: the latest non-empty list a caller requested
    run,                   \* history: transport failures since the last reset
    torn,                  \* history: disconnect() was the latest caller operation
    frame,                 \* history: the frame handleMessage processed in the
                           \* latest step
    positions,             \* dashboard: useState positions
    latest,                \* history: what the dashboard received last, a price
                           \* frame ("frame") or a position sync ("sync")
    shown,                 \* dashboard: getLivePositionData of every position
                           \* in the latest render
    totalUnrealized,       \* dashboard: totalUnrealized of the latest render
    priceHistory,          \* dashboard: the price series of side A of market 1
    scoreHistory,          \* dashboard: the score series of market 1
    now,                   \* Date.now() of the latest series update, in ms
    feed,                  \* the input script of the behaviour: any short
                           \* sequence of updates ("free"), or distinct values
                           \* one second apart from the stream or from REST
    appends,               \* series updates so far
    lastIn,                \* history: path and input of the latest series update
    relay,                 \* relay: the state of one GET of /api/ws-stream
    stream,                \* relay: frames enqueued to the client, oldest first
    upMsg,                 \* history: the latest upstream message the relay handled
    memoIn,                \* dashboard: positions and watchedMarkets as allSlugs
                           \* reads them
    memoSlugs,             \* dashboard: the memoised allSlugs
    chartIn,               \* dashboard: priceHistory[slug] as buildChartData
                           \* reads it, side -> series
    chartData,             \* dashboard: the data buildChartData returned
    marketPrices,          \* dashboard: market -> side A price of the hook's
                           \* prices, Undef = no entry
    marketEvents,          \* dashboard: market -> score of the hook's events
    marketHistory,         \* dashboard: market -> its price series of side A
                           \* and its score series
    clock,                 \* Date.now() of the latest merge, in ms
    nFrames,               \* frames merged so far
    frameSlug              \* history: the market of the latest frame, 0 = none

\* the state of the hook and its history
hookVars == <<conns, eventSourceRef, wsRef, prices, events, connected, error,
              timers, reconnectTimeoutRef, reconnectAttemptsRef, currentSlugsRef,
              nCalls, prevUpd, lastReq, run, torn>>

\* the positions of the dashboard and what it renders from them
valueVars == <<positions, latest, shown, totalUnrealized>>

\* the series of the dashboard and their inputs
seriesVars == <<priceHistory, scoreHistory, now, feed, appends, lastIn>>

\* the state of the relay
relayVars == <<relay, stream, upMsg>>

\* the inputs and results of the dashboard's pure functions
pureVars == <<memoIn, memoSlugs, chartIn, chartData>>

\* the state outside the hook, the frame handler and the dashboard
marketVars == <<marketPrices, marketEvents, marketHistory, clock, nFrames, frameSlug>>

laterVars == <<relayVars, pureVars, marketVars>>

\* the state of the frame handler, of the dashboard and of the relay
dashVars == <<frame, valueVars, seriesVars, laterVars>>

vars == <<hookVars, dashVars>>

----------------------------------------------------------------------------
(* Bounds of the model *)

\* market ids are 1..NumIds; the longest request holds all of them
NumIds == 11

\* caller operations (connect, updateSubscription, disconnect) in one
\* behaviour of the SSE revision
MaxCalls == 3

\* caller operations in one behaviour of the WebSocket revision
MaxCallsWS == 2

----------------------------------------------------------------------------
(* Program constants *)

MaxSlugs == 10

MaxAttempts == 5

BaseDelay == 1000

MaxDelay == 30000

\* the ',' of join(',') / split(','); market ids are 1..NumIds
Comma == 0

NullErr == "null"

ConnErr == "Connection error"

TerminalErrSSE == "Connection failed. Click sync to retry."

StreamErr == "Stream error"

\* err.message of a failed signWebSocketRequest, forwarded by the relay
SignErr == "signature error"

WsConnErr == "WebSocket connection error"

TerminalErrWS == "WebSocket disconnected. Click sync to retry."

AuthErr == "Failed to get WebSocket auth"

WsMsgErr == "WebSocket error"

----------------------------------------------------------------------------
(* Pure helpers *)

Min(a, b) == IF a < b THEN a ELSE b

RECURSIVE Pow2(_)
Pow2(n) == IF n = 0 THEN 1 ELSE 2 * Pow2(n - 1)

\* a backoff that starts at the second delay
BackoffDelayFromSecond(attempts) == Min(BaseDelay * Pow2(attempts + 1), MaxDelay)

\* Math.min(1000 * Math.pow(2, attempts), 30000)
BackoffDelay(attempts) == Min(BaseDelay * Pow2(attempts), MaxDelay)

\* the guard of the reconnect branch: reconnectAttemptsRef.current < 5
MayRetry(attempts) == attempts < MaxAttempts

\* a counter that goes up by two
NextAttemptByTwo(attempts) == attempts + 2

\* reconnectAttemptsRef.current++
NextAttempt(attempts) == attempts + 1

\* Array.prototype.slice(0, n)
Slice(s, n) == SubSeq(s, 1, Min(n, Len(s)))

\* a list passed on whole
TruncateNothing(s) == s

\* if (slugsToUse.length > 10) slugsToUse = slugsToUse.slice(0, 10)
Truncate(s) == IF Len(s) > MaxSlugs THEN Slice(s, MaxSlugs) ELSE s

Range(s) == {s[i] : i \in 1..Len(s)}

\* a market slug as the string it is in a URL: one symbol per id
SlugStr(id) == <<id>>

StrList(s) == [i \in 1..Len(s) |-> SlugStr(s[i])]

\* Array.prototype.join(','): the slugs separated by commas, as one string
RECURSIVE JoinComma(_)
JoinComma(s) ==
    IF Len(s) = 0 THEN <<>>
    ELSE IF Len(s) = 1 THEN SlugStr(s[1])
    ELSE SlugStr(s[1]) \o <<Comma>> \o JoinComma(Tail(s))

\* String.prototype.split(','): the pieces between commas, empty ones included
RECURSIVE SplitFrom(_, _, _)
SplitFrom(str, i, piece) ==
    IF i > Len(str) THEN <<piece>>
    ELSE IF str[i] = Comma THEN <<piece>> \o SplitFrom(str, i + 1, <<>>)
    ELSE SplitFrom(str, i + 1, Append(piece, str[i]))

SplitComma(str) == SplitFrom(str, 1, <<>>)

\* .filter(Boolean) on strings drops the empty ones
FilterNonEmpty(ps) == SelectSeq(ps, LAMBDA p : Len(p) > 0)

\* [...xs].sort(): insertion sort into ascending order, duplicates kept
RECURSIVE InsertSorted(_, _)
InsertSorted(x, s) ==
    IF Len(s) = 0 THEN <<x>>
    ELSE IF x <= Head(s) THEN <<x>> \o s
    ELSE <<Head(s)>> \o InsertSorted(x, Tail(s))

RECURSIVE SortSlugs(_)
SortSlugs(s) == IF Len(s) = 0 THEN <<>> ELSE InsertSorted(Head(s), SortSlugs(Tail(s)))

\* [...xs].sort().join(',')
SortedKey(s) == JoinComma(SortSlugs(s))

\* a comparison of the lists as they are, unsorted
SlugsChangedInOrder(old, new) == JoinComma(old) # JoinComma(new)

\* oldSlugs !== newSlugsSorted
SlugsChanged(old, new) == SortedKey(old) # SortedKey(new)

----------------------------------------------------------------------------
(* Inputs *)

\* the slug lists a caller passes: the hook's slugs argument and the
\* argument of updateSubscription (the dashboard's allSlugs)
\* all ids in ascending order
Asc == [i \in 1..NumIds |-> i]

\* the same ids, the last one moved to the front
Rot == [i \in 1..NumIds |-> IF i = 1 THEN NumIds ELSE i - 1]

\* the same ids, the first two exchanged
Swap == [i \in 1..NumIds |-> IF i = 1 THEN 2 ELSE IF i = 2 THEN 1 ELSE i]

Requests == {<<>>, <<1, 2>>, <<2, 1>>, Asc, Rot, Swap}

\* the markets whose data frames the model delivers, and the prices they carry
TrackedSlugs == {1}

PriceVals == {40}

----------------------------------------------------------------------------
(* Connections and timers *)

RemoveAt(s, j) ==
    IF j \in 1..Len(s) THEN SubSeq(s, 1, j - 1) \o SubSeq(s, j + 1, Len(s)) ELSE s

\* an index into s after s[j] was removed
RefAfter(ref, j) == IF ref > j THEN ref - 1 ELSE ref

Live(c) == c \in DOMAIN conns /\ conns[c].st \in {"connecting", "open"}

LiveConns == {c \in DOMAIN conns : Live(c)}

\* an attempt that has not opened yet: waiting for its credentials, for the
\* socket, or (sse) for the relay's upstream socket
InFlight(r) == r.st \in {"fetching", "connecting"} \/ r.up = "pending"

\* history: a new request marks the attempts still in flight as superseded
Superseded(cs) ==
    [c \in DOMAIN cs |-> IF InFlight(cs[c]) THEN [cs[c] EXCEPT !.stale = TRUE] ELSE cs[c]]

\* history: updateSubscription(newSlugs) directly after the calls in prev
CalledAgain(prev, newSlugs) ==
    IF Len(prev) = 0 THEN <<newSlugs>> ELSE <<prev[Len(prev)], newSlugs>>

\* eventSourceRef.current.close(): a closed EventSource delivers no event
CloseEventSource(cs, ref) == RemoveAt(cs, ref)

\* new EventSource('/api/ws-stream?pin=..&slugs=' + slugsToUse.join(','))
NewEventSource(slugsToUse) ==
    [st |-> "connecting", url |-> JoinComma(slugsToUse), up |-> "pending",
     sub |-> <<>>, cl |-> <<>>, stale |-> FALSE]

\* the relay: searchParams.get('slugs')?.split(',').filter(Boolean)
RelaySlugs(url) == FilterNonEmpty(SplitComma(url))

\* the relay's subscribe directive: market_slugs: slugs.slice(0, 10)
RelaySubscribe(url) == Slice(RelaySlugs(url), MaxSlugs)

\* clearTimeout(reconnectTimeoutRef.current)
ClearTimeout(ts, ref) == RemoveAt(ts, ref)

\* reconnectTimeoutRef.current once timer t has fired or was cleared
TimerRefAfter(ref, t) == IF ref = t THEN -1 ELSE RefAfter(ref, t)

\* connectWithSlugs(slugsToConnect), on the connections cs the caller left
ConnectWithSlugs(slugsToConnect, cs) ==
    LET closed == CloseEventSource(cs, eventSourceRef) IN
    IF Len(slugsToConnect) = 0
    THEN /\ conns' = closed
         /\ eventSourceRef' = 0
         /\ UNCHANGED currentSlugsRef
    ELSE /\ currentSlugsRef' = Truncate(slugsToConnect)
         /\ conns' = Append(closed, NewEventSource(Truncate(slugsToConnect)))
         /\ eventSourceRef' = Len(closed) + 1

----------------------------------------------------------------------------
(* The SSE revision of the hook *)

\* connect(): the manual connect, with the hook's current slugs argument
Connect(slugs) ==
    /\ nCalls < MaxCalls
    /\ nCalls' = nCalls + 1
    /\ reconnectAttemptsRef' = 0
    /\ error' = NullErr
    /\ run' = 0
    /\ torn' = FALSE
    /\ prevUpd' = <<>>
    /\ IF Len(slugs) = 0
       THEN UNCHANGED <<conns, eventSourceRef, currentSlugsRef, lastReq>>
       ELSE /\ ConnectWithSlugs(slugs, Superseded(conns))
            /\ lastReq' = slugs
    /\ UNCHANGED <<wsRef, prices, events, connected, reconnectTimeoutRef, timers>>

\* eventSource.onopen: logs only
OnOpen(c) ==
    /\ conns[c].st = "connecting"
    /\ conns' = [conns EXCEPT ![c].st = "open"]
    /\ prevUpd' = <<>>
    /\ UNCHANGED <<nCalls, eventSourceRef, wsRef, prices, events, connected, error,
                   reconnectTimeoutRef, reconnectAttemptsRef, currentSlugsRef,
                   timers, lastReq, run, torn>>

\* the relay's upstream socket opens: it sends {type:'connected'} and the
\* subscribe directive; handleMessage stores the connection event
MsgConnected(c) ==
    /\ conns[c].st = "open" /\ conns[c].up = "pending"
    /\ conns' = [conns EXCEPT ![c].up = "open", ![c].sub = RelaySubscribe(conns[c].url)]
    /\ connected' = TRUE
    /\ error' = NullErr
    /\ reconnectAttemptsRef' = 0
    /\ run' = 0
    /\ prevUpd' = <<>>
    /\ UNCHANGED <<nCalls, eventSourceRef, wsRef, prices, events, reconnectTimeoutRef,
                   currentSlugsRef, timers, lastReq, torn>>

\* the relay's upstream socket closes: {type:'disconnected'}, then the stream ends
MsgDisconnected(c) ==
    /\ conns[c].st = "open" /\ conns[c].up \in {"pending", "open"}
    /\ conns' = [conns EXCEPT ![c].up = "closed"]
    /\ connected' = FALSE
    /\ prevUpd' = <<>>
    /\ UNCHANGED <<nCalls, eventSourceRef, wsRef, prices, events, error,
                   reconnectTimeoutRef, reconnectAttemptsRef, currentSlugsRef,
                   timers, lastReq, run, torn>>

\* {type:'heartbeat'}: the relay's 30 s keep-alive, swallowed
MsgHeartbeat(c) ==
    /\ conns[c].st = "open" /\ conns[c].up = "open"
    /\ prevUpd' = <<>>
    /\ UNCHANGED <<nCalls, conns, eventSourceRef, wsRef, prices, events, connected,
                   error, reconnectTimeoutRef, reconnectAttemptsRef,
                   currentSlugsRef, timers, lastReq, run, torn>>

\* {type:'error'} forwarded by the relay
MsgError(c) ==
    /\ conns[c].st = "open" /\ conns[c].up \in {"pending", "open"}
    /\ error' = StreamErr
    /\ prevUpd' = <<>>
    /\ UNCHANGED <<nCalls, conns, eventSourceRef, wsRef, prices, events, connected,
                   reconnectTimeoutRef, reconnectAttemptsRef, currentSlugsRef,
                   timers, lastReq, run, torn>>

\* the relay's signWebSocketRequest throws: its catch block sends
\* {type:'error', message} and closes the stream; handleMessage stores the
\* message, the EventSource's error event follows
RelayAuthFail(c) ==
    /\ conns[c].st = "open" /\ conns[c].up = "pending"
    /\ conns' = [conns EXCEPT ![c].up = "failed"]
    /\ error' = SignErr
    /\ prevUpd' = <<>>
    /\ UNCHANGED <<nCalls, eventSourceRef, wsRef, prices, events, connected,
                   reconnectTimeoutRef, reconnectAttemptsRef, currentSlugsRef,
                   timers, lastReq, run, torn>>

\* a market data frame for a subscribed slug, with or without event info
MsgData(c, slug, px, ev) ==
    /\ conns[c].st = "open" /\ conns[c].up = "open"
    /\ SlugStr(slug) \in Range(conns[c].sub)
    /\ prices' = [prices EXCEPT ![slug] = px]
    /\ events' = IF ev THEN [events EXCEPT ![slug] = TRUE] ELSE events
    /\ prevUpd' = <<>>
    /\ UNCHANGED <<nCalls, conns, eventSourceRef, wsRef, connected, error,
                   reconnectTimeoutRef, reconnectAttemptsRef, currentSlugsRef,
                   timers, lastReq, run, torn>>

\* eventSource.onerror
OnError(c) ==
    /\ Live(c)
    /\ connected' = FALSE
    /\ conns' = CloseEventSource(
                    [conns EXCEPT ![c].st = "connecting", ![c].up = "pending",
                                  ![c].sub = <<>>], eventSourceRef)
    /\ eventSourceRef' = 0
    /\ run' = Min(run + 1, MaxAttempts + 1)
    /\ prevUpd' = <<>>
    /\ IF MayRetry(reconnectAttemptsRef)
       THEN /\ reconnectAttemptsRef' = NextAttempt(reconnectAttemptsRef)
            /\ timers' = Append(timers, [delay |-> BackoffDelay(reconnectAttemptsRef),
                                         cl |-> <<>>])
            /\ reconnectTimeoutRef' = Len(timers) + 1
            /\ error' = ConnErr
       ELSE /\ error' = TerminalErrSSE
            /\ UNCHANGED <<reconnectAttemptsRef, timers, reconnectTimeoutRef>>
    /\ UNCHANGED <<nCalls, wsRef, prices, events, currentSlugsRef, lastReq, torn>>

\* the setTimeout callback of onerror
ReconnectTimer(t) ==
    /\ timers' = RemoveAt(timers, t)
    /\ reconnectTimeoutRef' = TimerRefAfter(reconnectTimeoutRef, t)
    /\ prevUpd' = <<>>
    /\ IF Len(currentSlugsRef) > 0
       THEN ConnectWithSlugs(currentSlugsRef, conns)
       ELSE UNCHANGED <<conns, eventSourceRef, currentSlugsRef>>
    /\ UNCHANGED <<nCalls, wsRef, prices, events, connected, error,
                   reconnectAttemptsRef, lastReq, run, torn>>

\* disconnect(), also the unmount cleanup
Disconnect ==
    /\ nCalls < MaxCalls
    /\ nCalls' = nCalls + 1
    /\ timers' = ClearTimeout(timers, reconnectTimeoutRef)
    /\ reconnectTimeoutRef' = 0
    /\ conns' = CloseEventSource(conns, eventSourceRef)
    /\ eventSourceRef' = 0
    /\ connected' = FALSE
    /\ reconnectAttemptsRef' = 0
    /\ run' = 0
    /\ torn' = TRUE
    /\ prevUpd' = <<>>
    /\ UNCHANGED <<wsRef, prices, events, error, currentSlugsRef, lastReq>>

\* updateSubscription(newSlugs)
UpdateSubscription(newSlugs) ==
    /\ nCalls < MaxCalls
    /\ nCalls' = nCalls + 1
    /\ prevUpd' = CalledAgain(prevUpd, newSlugs)
    /\ IF Len(newSlugs) = 0
       THEN UNCHANGED <<conns, eventSourceRef, reconnectTimeoutRef,
                        reconnectAttemptsRef, currentSlugsRef, timers, lastReq,
                        run, torn>>
       ELSE /\ lastReq' = newSlugs
            /\ torn' = FALSE
            /\ IF SlugsChanged(currentSlugsRef, Truncate(newSlugs))
               THEN /\ timers' = ClearTimeout(timers, reconnectTimeoutRef)
                    /\ reconnectTimeoutRef' = 0
                    /\ reconnectAttemptsRef' = 0
                    /\ run' = 0
                    /\ ConnectWithSlugs(Truncate(newSlugs), Superseded(conns))
               ELSE UNCHANGED <<conns, eventSourceRef, reconnectTimeoutRef,
                                reconnectAttemptsRef, currentSlugsRef, timers, run>>
    /\ UNCHANGED <<wsRef, prices, events, connected, error>>

----------------------------------------------------------------------------
(* The dashboard's reconcile effects, on the SSE revision of the hook *)

\* useEffect: if (allSlugs.length > 0 && !wsConnected) wsConnect()
ConnectEffect(allSlugs) ==
    /\ Len(allSlugs) > 0 /\ ~connected
    /\ Connect(allSlugs)

\* useEffect: if (wsConnected && allSlugs.length > 0) updateSubscription(allSlugs)
UpdateEffect(allSlugs) ==
    /\ connected /\ Len(allSlugs) > 0
    /\ UpdateSubscription(allSlugs)

----------------------------------------------------------------------------
(* The direct-WebSocket revision of the hook *)

\* an attempt of connect() waiting for fetch('/api/ws-auth'); cl is the slugs
\* argument its closure holds
NewAttempt(cl) ==
    [st |-> "fetching", url |-> <<>>, up |-> "none", sub |-> <<>>, cl |-> cl,
     stale |-> FALSE]

\* WebSocket.close(): a connecting socket fails (error, then close), an open
\* one starts the closing handshake (close); the events arrive later
CloseWebSocket(cs, ref) ==
    IF ref \in DOMAIN cs
    THEN [cs EXCEPT ![ref].st = CASE cs[ref].st = "connecting" -> "failing"
                                  [] cs[ref].st = "open" -> "closing"
                                  [] OTHER -> cs[ref].st]
    ELSE cs

\* connect() up to its await, on the connections cs the caller left
ConnectWS(cl, cs) ==
    IF Len(cl) = 0
    THEN /\ conns' = cs
         /\ UNCHANGED currentSlugsRef
    ELSE /\ currentSlugsRef' = Truncate(cl)
         /\ conns' = Append(cs, NewAttempt(cl))

\* manualConnect(), exported as connect
ManualConnectWS(slugs) ==
    /\ nCalls < MaxCallsWS
    /\ nCalls' = nCalls + 1
    /\ reconnectAttemptsRef' = 0
    /\ error' = NullErr
    /\ run' = 0
    /\ torn' = FALSE
    /\ prevUpd' = <<>>
    /\ IF Len(slugs) = 0
       THEN UNCHANGED <<conns, currentSlugsRef, lastReq>>
       ELSE /\ ConnectWS(slugs, Superseded(conns))
            /\ lastReq' = slugs
    /\ UNCHANGED <<eventSourceRef, wsRef, prices, events, connected,
                   reconnectTimeoutRef, timers>>

\* connect() after its await: the auth fetch succeeded
AuthOk(c) ==
    /\ conns[c].st = "fetching"
    /\ conns' = [CloseWebSocket(conns, wsRef) EXCEPT ![c].st = "connecting"]
    /\ wsRef' = c
    /\ prevUpd' = <<>>
    /\ UNCHANGED <<nCalls, eventSourceRef, prices, events, connected, error,
                   reconnectTimeoutRef, reconnectAttemptsRef, currentSlugsRef,
                   timers, lastReq, run, torn>>

\* connect() after its await: the auth fetch failed, the catch block runs
AuthFail(c) ==
    /\ conns[c].st = "fetching"
    /\ conns' = RemoveAt(conns, c)
    /\ wsRef' = RefAfter(wsRef, c)
    /\ error' = AuthErr
    /\ prevUpd' = <<>>
    /\ UNCHANGED <<nCalls, eventSourceRef, prices, events, connected,
                   reconnectTimeoutRef, reconnectAttemptsRef, currentSlugsRef,
                   timers, lastReq, run, torn>>

\* ws.onopen
WsOpen(c) ==
    /\ conns[c].st = "connecting"
    /\ conns' = [conns EXCEPT ![c].st = "open", ![c].sub = StrList(currentSlugsRef)]
    /\ connected' = TRUE
    /\ error' = NullErr
    /\ reconnectAttemptsRef' = 0
    /\ run' = 0
    /\ prevUpd' = <<>>
    /\ UNCHANGED <<nCalls, eventSourceRef, wsRef, prices, events, reconnectTimeoutRef,
                   currentSlugsRef, timers, lastReq, torn>>

\* ws.onmessage, {type:'error'}
WsMsgError(c) ==
    /\ conns[c].st = "open"
    /\ error' = WsMsgErr
    /\ prevUpd' = <<>>
    /\ UNCHANGED <<nCalls, conns, eventSourceRef, wsRef, prices, events, connected,
                   reconnectTimeoutRef, reconnectAttemptsRef, currentSlugsRef,
                   timers, lastReq, run, torn>>

\* ws.onmessage, a market update for a subscribed slug
WsMsgData(c, slug, px, ev) ==
    /\ conns[c].st = "open"
    /\ SlugStr(slug) \in Range(conns[c].sub)
    /\ prices' = [prices EXCEPT ![slug] = px]
    /\ events' = IF ev THEN [events EXCEPT ![slug] = TRUE] ELSE events
    /\ prevUpd' = <<>>
    /\ UNCHANGED <<nCalls, conns, eventSourceRef, wsRef, connected, error,
                   reconnectTimeoutRef, reconnectAttemptsRef, currentSlugsRef,
                   timers, lastReq, run, torn>>

\* ws.onerror: the transport failed, or the socket was closed while connecting
WsError(c) ==
    /\ conns[c].st \in {"connecting", "open", "failing"}
    /\ conns' = [conns EXCEPT ![c].st = "closing"]
    /\ error' = WsConnErr
    /\ prevUpd' = <<>>
    /\ UNCHANGED <<nCalls, eventSourceRef, wsRef, prices, events, connected,
                   reconnectTimeoutRef, reconnectAttemptsRef, currentSlugsRef,
                   timers, lastReq, run, torn>>

\* ws.onclose: after an error, after close(), or closed by the server
WsClose(c) ==
    /\ conns[c].st \in {"open", "closing"}
    /\ conns' = RemoveAt(conns, c)
    /\ connected' = FALSE
    /\ wsRef' = 0
    /\ run' = Min(run + 1, MaxAttempts + 1)
    /\ prevUpd' = <<>>
    /\ IF MayRetry(reconnectAttemptsRef)
       THEN /\ reconnectAttemptsRef' = NextAttempt(reconnectAttemptsRef)
            /\ timers' = Append(timers, [delay |-> BackoffDelay(reconnectAttemptsRef),
                                         cl |-> conns[c].cl])
            /\ reconnectTimeoutRef' = Len(timers) + 1
            /\ UNCHANGED error
       ELSE /\ error' = TerminalErrWS
            /\ UNCHANGED <<reconnectAttemptsRef, timers, reconnectTimeoutRef>>
    /\ UNCHANGED <<nCalls, eventSourceRef, prices, events, currentSlugsRef, lastReq, torn>>

\* setTimeout(connect, delay) fires: connect() of the closure that scheduled it
WsTimer(t) ==
    /\ timers' = RemoveAt(timers, t)
    /\ reconnectTimeoutRef' = TimerRefAfter(reconnectTimeoutRef, t)
    /\ ConnectWS(timers[t].cl, conns)
    /\ prevUpd' = <<>>
    /\ UNCHANGED <<nCalls, eventSourceRef, wsRef, prices, events, connected, error,
                   reconnectAttemptsRef, lastReq, run, torn>>

\* disconnect(), also the unmount cleanup
DisconnectWS ==
    /\ nCalls < MaxCallsWS
    /\ nCalls' = nCalls + 1
    /\ timers' = ClearTimeout(timers, reconnectTimeoutRef)
    /\ reconnectTimeoutRef' = 0
    /\ conns' = CloseWebSocket(conns, wsRef)
    /\ wsRef' = 0
    /\ connected' = FALSE
    /\ reconnectAttemptsRef' = 0
    /\ run' = 0
    /\ torn' = TRUE
    /\ prevUpd' = <<>>
    /\ UNCHANGED <<eventSourceRef, prices, events, error, currentSlugsRef, lastReq>>

\* updateSubscription(newSlugs): unsubscribe and subscribe on the open socket
UpdateSubscriptionWS(newSlugs) ==
    /\ nCalls < MaxCallsWS
    /\ nCalls' = nCalls + 1
    /\ prevUpd' = CalledAgain(prevUpd, newSlugs)
    /\ IF Len(newSlugs) = 0
       THEN UNCHANGED <<conns, currentSlugsRef, lastReq, torn>>
       ELSE /\ lastReq' = newSlugs
            /\ torn' = FALSE
            /\ currentSlugsRef' = Truncate(newSlugs)
            /\ conns' = IF wsRef \in DOMAIN conns /\ conns[wsRef].st = "open"
                        THEN [conns EXCEPT ![wsRef].sub = StrList(Truncate(newSlugs))]
                        ELSE conns
    /\ UNCHANGED <<eventSourceRef, wsRef, prices, events, connected, error,
                   reconnectTimeoutRef, reconnectAttemptsRef, timers, run>>

----------------------------------------------------------------------------
(* The frame handler of the later SSE revision (src/unnamed/part_006) *)

\* prices are in cents: 1.00 is 100
Unit == 100

\* JavaScript's undefined, null and NaN where a price is expected
Undef == -1

NullPx == -2

NaN == -3

\* an unparsable price string
Garbage == -4

\* the outcome names of a binary market
Sides == {"A", "B"}

\* an object with no keys
NoSides == [s \in {} |-> Undef]

\* prev[slug] || {}: an entry with no field
NoEntry ==
    [sides |-> NoSides, currentPx |-> Undef, inferredYesPrice |-> Undef,
     inferredNoPrice |-> Undef]

\* before any frame
NoFrame == [json |-> "none"]

\* the outcomes arrays of the frames: empty, one outcome at price 0, both
OutcomeLists ==
    {NoSides, [s \in {"A"} |-> 0], [s \in Sides |-> IF s = "A" THEN 25 ELSE 75]}

\* the currentPx values of the frames
PxIn == {0, 60}

\* the key a data frame carries: none, marketDataLite, market_data_lite, a
\* subscription confirmation, or the generic update with sides or outcomes
Shapes == {"none", "marketDataLite", "market_data_lite", "subscribed", "sides", "outcomes"}

\* event.data that JSON.parse rejects, and the JSON text null
BadFrames == {[json |-> "invalid"], [json |-> "null"]}

\* control signals, alone and together with market data
ControlFrames ==
    [json : {"object"}, type : {"connected", "disconnected", "heartbeat", "error"},
     shape : {"none", "marketDataLite"}, slug : TrackedSlugs, currentPx : {60},
     hasOutcomes : {FALSE}, outcomes : {NoSides}, event : {FALSE}]

\* frames without a type: slug 0 is a missing slug, currentPx Undef a missing
\* currentPx, event the presence of event info; every key is given only to
\* the shapes whose branch reads it
DataFrames ==
    {f \in [json : {"object"}, type : {"none"}, shape : Shapes,
            slug : {0} \cup TrackedSlugs, currentPx : PxIn \cup {Undef},
            hasOutcomes : BOOLEAN, outcomes : OutcomeLists, event : BOOLEAN] :
        /\ ~f.hasOutcomes => f.outcomes = NoSides
        /\ f.hasOutcomes => f.shape \notin {"none", "subscribed"}
        /\ f.currentPx # Undef => f.shape = "marketDataLite"
        /\ f.event => f.shape \in {"sides", "outcomes"}
        /\ f.slug = 0 => ~f.event /\ f.outcomes # NoSides /\ f.currentPx # 0}

Frames == BadFrames \cup ControlFrames \cup DataFrames

\* parseFloat of a price string
ParseFloat(raw) == IF raw = Garbage THEN NaN ELSE raw

\* x || null
OrNull(x) == IF x \in {0, NaN, Undef, NullPx} THEN NullPx ELSE x

\* sidesData of the marketDataLite and market_data_lite branches
LiteSides(outcomes) == [s \in DOMAIN outcomes |-> ParseFloat(outcomes[s])]

\* sidesData of the generic branch: data.sides holds numbers, data.outcomes
\* and data.marketSides go through parseFloat(price) || null
GenericSides(shape, outcomes) ==
    IF shape = "sides" THEN outcomes
    ELSE [s \in DOMAIN outcomes |-> OrNull(ParseFloat(outcomes[s]))]

\* a replaced entry: sides and no aggregate price
SidesEntry(sides) == [NoEntry EXCEPT !.sides = sides]

\* an inference that gives both sides the aggregate price
InferredNoPriceSame(currentPrice) == currentPrice

\* inferredNoPrice: 1 - currentPrice
InferredNoPrice(currentPrice) ==
    IF currentPrice = NaN THEN NaN ELSE Unit - currentPrice

\* a handler whose catch block reports the frame as a stream error
FrameKindUncaught(f) ==
    IF f.json # "object" THEN "error"
    ELSE IF f.type # "none" THEN f.type
    ELSE f.shape

\* the branch of handleMessage a frame takes: JSON.parse or msg.type throws
\* into the catch block, else the control signal, else the first key present
FrameKind(f) ==
    IF f.json # "object" THEN "thrown"
    ELSE IF f.type # "none" THEN f.type
    ELSE f.shape

\* prices[slug] after a data frame of kind k, existing = prev[slug] || {}
NewEntry(k, f, existing) ==
    CASE k = "marketDataLite" ->
           IF f.slug # 0 /\ f.currentPx # Undef
           THEN IF f.hasOutcomes /\ DOMAIN LiteSides(f.outcomes) # {}
                THEN [SidesEntry(LiteSides(f.outcomes)) EXCEPT
                          !.currentPx = ParseFloat(f.currentPx)]
                ELSE [existing EXCEPT
                          !.currentPx = ParseFloat(f.currentPx),
                          !.inferredYesPrice = ParseFloat(f.currentPx),
                          !.inferredNoPrice = InferredNoPrice(ParseFloat(f.currentPx))]
           ELSE existing
      [] k = "market_data_lite" ->
           IF f.slug # 0 /\ f.hasOutcomes /\ DOMAIN LiteSides(f.outcomes) # {}
           THEN SidesEntry(LiteSides(f.outcomes))
           ELSE existing
      [] k \in {"sides", "outcomes"} ->
           IF f.slug # 0 /\ f.hasOutcomes /\ DOMAIN GenericSides(k, f.outcomes) # {}
           THEN SidesEntry(GenericSides(k, f.outcomes))
           ELSE existing
      [] OTHER -> existing

\* handleMessage(event) on the open stream
HandleMessage(f) ==
    LET k == FrameKind(f) IN
    /\ eventSourceRef \in DOMAIN conns /\ conns[eventSourceRef].st = "open"
    /\ frame' = f
    /\ connected' = CASE k = "connected" -> TRUE
                      [] k = "disconnected" -> FALSE
                      [] OTHER -> connected
    /\ error' = CASE k = "connected" -> NullErr
                  [] k = "error" -> StreamErr
                  [] OTHER -> error
    /\ reconnectAttemptsRef' = IF k = "connected" THEN 0 ELSE reconnectAttemptsRef
    /\ prices' = IF k \in Shapes /\ f.slug # 0
                 THEN [prices EXCEPT ![f.slug] = NewEntry(k, f, prices[f.slug])]
                 ELSE prices
    /\ events' = IF k \in {"sides", "outcomes"} /\ f.slug # 0 /\ f.hasOutcomes /\ f.event
                 THEN [events EXCEPT ![f.slug] = TRUE]
                 ELSE events
    /\ UNCHANGED <<conns, eventSourceRef, wsRef, timers, reconnectTimeoutRef,
                   currentSlugsRef, nCalls, prevUpd, lastReq, run, torn>>

----------------------------------------------------------------------------
(* Price and score series of the dashboard (src/unnamed/part_003) *)

\* series updates in a behaviour of the free feed
MaxFree == 3

\* series updates in a behaviour of a feed of distinct values
MaxAppends == 1000

\* .slice(-500)
MaxPoints == 500

\* minimum sampling intervals in ms: streamed prices and scores, REST prices
\* and scores
PriceInterval == 5000

ScoreInterval == 15000

RestPriceInterval == 10000

RestScoreInterval == 30000

\* the time between two updates of a feed of distinct values, in ms
Tick == 1000

\* eventInfo.score: absent or not matching the score pattern, or home - away
NoScore == [has |-> FALSE, home |-> 0, away |-> 0]

Score(home, away) == [has |-> TRUE, home |-> home, away |-> away]

NoInput == [op |-> "none", price |-> Undef, score |-> NoScore]

\* series.slice(-500)
LastPoints(series) ==
    IF Len(series) > MaxPoints
    THEN SubSeq(series, Len(series) - MaxPoints + 1, Len(series))
    ELSE series

\* a sampling test that also passes at the interval itself
SampledAtInterval(lastTime, t, interval) == t - lastTime >= interval

\* now - lastPoint.time > interval
Sampled(lastTime, t, interval) == t - lastTime > interval

\* a merge that puts the new point in front of the series
MergePriceInFront(series, price, t) ==
    IF price \in {NullPx, Undef} THEN series
    ELSE LastPoints(<<[time |-> t - 1, price |-> price]>> \o series)

\* the wsPrices merge for one side: null and undefined prices are skipped
MergePrice(series, price, t) ==
    IF price \in {NullPx, Undef} THEN series
    ELSE IF \/ series = <<>>
            \/ series[Len(series)].price # price
            \/ Sampled(series[Len(series)].time, t, PriceInterval)
         THEN LastPoints(Append(series, [time |-> t, price |-> price]))
         ELSE series

\* the wsEvents merge for one market
MergeScore(series, score, t) ==
    IF ~score.has THEN series
    ELSE IF \/ series = <<>>
            \/ series[Len(series)].home # score.home
            \/ series[Len(series)].away # score.away
            \/ Sampled(series[Len(series)].time, t, ScoreInterval)
         THEN LastPoints(Append(series, [time |-> t, home |-> score.home,
                                         away |-> score.away]))
         ELSE series

\* updatePriceHistory for one side: push
PushPrice(series, price, t) ==
    IF price \in {NullPx, Undef} THEN series
    ELSE IF \/ series = <<>>
            \/ series[Len(series)].price # price
            \/ Sampled(series[Len(series)].time, t, RestPriceInterval)
         THEN Append(series, [time |-> t, price |-> price])
         ELSE series

\* updatePriceHistory for the score of one market: push
PushScore(series, score, t) ==
    IF ~score.has THEN series
    ELSE IF \/ series = <<>>
            \/ series[Len(series)].home # score.home
            \/ series[Len(series)].away # score.away
            \/ Sampled(series[Len(series)].time, t, RestScoreInterval)
         THEN Append(series, [time |-> t, home |-> score.home, away |-> score.away])
         ELSE series

\* the updates of the free feed: a price in thousandths (Undef when the
\* update has no price for the side), a score, and the time since the
\* previous update
FreeStream ==
    {in \in [price : {400, 401, NullPx, Undef}, score : {NoScore, Score(1, 0), Score(1, 1)},
             dt : {Tick, PriceInterval, PriceInterval + 1, ScoreInterval, ScoreInterval + 1}] :
        /\ in.price # Undef \/ in.score.has
        /\ in.price = NullPx => ~in.score.has /\ in.dt = Tick
        /\ in.dt \in {PriceInterval, PriceInterval + 1} => in.price # Undef
        /\ in.dt \in {ScoreInterval, ScoreInterval + 1} => in.score.has}

FreeRest ==
    [price : {400, 401}, score : {NoScore, Score(1, 0)},
     dt : {Tick, RestPriceInterval + 1}]

\* the next update of a feed of distinct values
Distinct == [price |-> appends + 1, score |-> Score(appends + 1, 0), dt |-> Tick]

\* the updates the stream can deliver in this state
StreamInputs ==
    CASE feed = "free" /\ appends < MaxFree -> FreeStream
      [] feed = "stream" /\ appends < MaxAppends -> {Distinct}
      [] OTHER -> {}

\* the REST price fetches that can complete in this state
RestInputs ==
    CASE feed = "free" /\ appends < MaxFree -> FreeRest
      [] feed = "rest" /\ appends < MaxAppends -> {Distinct}
      [] OTHER -> {}

\* the merge effects after a frame changed wsPrices, wsEvents or both
StreamMerge(in) ==
    /\ now' = now + in.dt
    /\ priceHistory' = MergePrice(priceHistory, in.price, now')
    /\ scoreHistory' = MergeScore(scoreHistory, in.score, now')
    /\ appends' = appends + 1
    /\ lastIn' = [op |-> "stream", price |-> in.price, score |-> in.score]
    /\ UNCHANGED feed

\* updatePriceHistory(prices) with the prices of the REST fetch
UpdatePriceHistory(in) ==
    /\ now' = now + in.dt
    /\ priceHistory' = PushPrice(priceHistory, in.price, now')
    /\ scoreHistory' = PushScore(scoreHistory, in.score, now')
    /\ appends' = appends + 1
    /\ lastIn' = [op |-> "rest", price |-> in.price, score |-> in.score]
    /\ UNCHANGED feed

----------------------------------------------------------------------------
(* Position valuation of the dashboard (src/unnamed/part_003) *)

\* manual positions in one behaviour
MaxManual == 1

\* shares and cost of every position of the model, the cost in cents
Shares == 10

Cost == 300

\* pos.cashValue.value of the positions API, in cents
CashValues == {0, 250, 900}

\* the side price the REST price fetch gives for a position: none or 0.25
RestPrices == {NullPx, 25}

\* an amount that may be NaN
Money(c) == [nan |-> FALSE, cents |-> c]

NaNMoney == [nan |-> TRUE, cents |-> 0]

\* a || b
OrElse(a, b) == IF a \in {0, NaN, Undef, NullPx} THEN b ELSE a

Abs(x) == IF x < 0 THEN -x ELSE x

\* a * b of a share count and a price
Times(a, b) == IF b = NaN THEN NaN ELSE a * b

\* a row of the positions API as auto-sync maps it: no marketPrice field
AutoSynced(side, cashValue) ==
    [id |-> 1, side |-> side, shares |-> Shares, cost |-> Cost,
     currentPrice |-> IF Shares > 0 THEN cashValue \div Shares ELSE 0,
     currentValue |-> cashValue, marketPrice |-> Undef, synced |-> TRUE]

\* transformPositions and withPrices of syncPositions: marketPrice is null
\* unless the REST prices hold a side price that is neither null nor undefined
Transformed(side, cashValue, sidePrice) ==
    [AutoSynced(side, cashValue) EXCEPT
        !.marketPrice = IF sidePrice \notin {NullPx, Undef} THEN sidePrice ELSE NullPx]

\* the position addPosition builds: its id is Date.now(), never a market slug
ManualPosition ==
    [id |-> 0, side |-> "A", shares |-> Shares, cost |-> Cost,
     currentPrice |-> Cost \div Shares, currentValue |-> Undef,
     marketPrice |-> Undef, synced |-> FALSE]

\* positions.filter(p => !p.synced)
Manual(ps) == SelectSeq(ps, LAMBDA p : ~p.synced)

\* the price of current and 1 - current that is closer to refPrice
InferLive(current, refPrice) ==
    IF current = NaN THEN NaN
    ELSE LET opposite == Unit - current IN
         IF Abs(current - refPrice) < Abs(opposite - refPrice) THEN current ELSE opposite

\* p.marketPrice || p.currentPrice || 0.5
RefPrice(p) == OrElse(p.marketPrice, OrElse(p.currentPrice, Unit \div 2))

\* wsPrices[p.id]
WsData(p, wsPrices) == IF p.id \in DOMAIN wsPrices THEN wsPrices[p.id] ELSE NoEntry

\* livePrice of getLivePositionData, NullPx when no branch assigns it
LivePrice(p, wsData) ==
    IF p.side \in DOMAIN wsData.sides /\ wsData.sides[p.side] # Undef
    THEN wsData.sides[p.side]
    ELSE IF wsData.currentPx # Undef
         THEN InferLive(wsData.currentPx, RefPrice(p))
         ELSE NullPx

GetLivePositionData(p, wsPrices) ==
    LET livePrice == LivePrice(p, WsData(p, wsPrices))
        finalPrice == IF livePrice # NullPx THEN livePrice ELSE p.currentPrice
    IN [price |-> finalPrice, value |-> Times(p.shares, finalPrice)]

\* positions.reduce((sum, p) => sum + (value - p.cost), 0) over the first n
RECURSIVE SumUnrealized(_, _, _)
SumUnrealized(ps, wsPrices, n) ==
    IF n = 0 THEN Money(0)
    ELSE LET sum == SumUnrealized(ps, wsPrices, n - 1)
             value == GetLivePositionData(ps[n], wsPrices).value
         IN IF sum.nan \/ value = NaN THEN NaNMoney
            ELSE Money(sum.cents + (value - ps[n].cost))

TotalUnrealized(ps, wsPrices) == SumUnrealized(ps, wsPrices, Len(ps))

\* the render that follows a state update
Render ==
    /\ shown' = [i \in DOMAIN positions' |-> GetLivePositionData(positions'[i], prices')]
    /\ totalUnrealized' = TotalUnrealized(positions', prices')

\* the frames of the valuation: market 1 with an aggregate price, a breakdown
\* by side, or both; a price may be "0", "1.5" or a string parseFloat cannot
\* read
ValueOutcomes ==
    {[s \in Sides |-> IF s = "A" THEN 25 ELSE 75], [s \in {"A"} |-> Garbage],
     [s \in {"A"} |-> 0]}

ValueFrames ==
    {f \in [json : {"object"}, type : {"none"},
            shape : {"marketDataLite", "market_data_lite", "outcomes"},
            slug : TrackedSlugs, currentPx : {0, 10, 72, 150, Garbage, Undef},
            hasOutcomes : BOOLEAN, outcomes : ValueOutcomes \cup {NoSides},
            event : {FALSE}] :
        /\ f.hasOutcomes <=> f.outcomes # NoSides
        /\ f.currentPx # Undef <=> f.shape = "marketDataLite"
        /\ ~f.hasOutcomes => f.shape = "marketDataLite"
        /\ f.hasOutcomes /\ f.shape = "marketDataLite" => f.currentPx = 72}

\* a price frame arrives and the dashboard renders again
PriceFrame(f) ==
    /\ HandleMessage(f)
    /\ latest' = "frame"
    /\ UNCHANGED <<positions, seriesVars, laterVars>>
    /\ Render

\* the auto-sync interval: the positions of the API replace all positions
AutoSync(side, cashValue) ==
    /\ positions' = <<AutoSynced(side, cashValue)>>
    /\ latest' = "sync"
    /\ UNCHANGED <<hookVars, frame, seriesVars, laterVars>>
    /\ Render

\* the REST price of a side, given the one of side A in cents
RestSidePrice(side, priceA) ==
    IF priceA = NullPx \/ side = "A" THEN priceA ELSE Unit - priceA

\* the REST price fetch of a sync: side A at priceA cents or without a price
SyncInput(priceA) ==
    [price |-> IF priceA = NullPx THEN NullPx ELSE 10 * priceA, score |-> NoScore,
     dt |-> Tick]

\* syncPositions: the REST prices go to the price history, the positions of
\* the API, with the REST side price, replace the synced positions and the
\* manual ones are kept
SyncPositions(side, cashValue, priceA) ==
    /\ feed = "free" /\ appends < MaxFree
    /\ UpdatePriceHistory(SyncInput(priceA))
    /\ positions' = <<Transformed(side, cashValue, RestSidePrice(side, priceA))>>
                         \o Manual(positions)
    /\ latest' = "sync"
    /\ UNCHANGED <<hookVars, frame, laterVars>>
    /\ Render

\* addPosition with a valid form
AddPosition ==
    /\ Len(Manual(positions)) < MaxManual
    /\ positions' = <<ManualPosition>> \o positions
    /\ UNCHANGED <<hookVars, frame, latest, seriesVars, laterVars>>
    /\ Render

----------------------------------------------------------------------------
(* The relay /api/ws-stream (src/app/api/prices/route.js) *)

\* frames enqueued to the client and not yet delivered
MaxQueue == 2

\* a control frame the relay builds
Control(type) ==
    [json |-> "object", type |-> type, shape |-> "none", slug |-> 1, currentPx |-> 60,
     hasOutcomes |-> FALSE, outcomes |-> NoSides, event |-> FALSE]

\* a market data frame of the upstream socket, with a type key or without
UpData(type) == [Control(type) EXCEPT !.shape = "marketDataLite"]

\* the messages of the upstream socket: heartbeat says that the message has a
\* heartbeat key, msg is what JSON.parse makes of it
Upstream ==
    [heartbeat : {FALSE}, msg : BadFrames] \cup
    [heartbeat : BOOLEAN, msg : {UpData("none"), UpData("heartbeat"), Control("none")}]

NoUpstream == [heartbeat |-> FALSE, msg |-> NoFrame]

\* the start of the stream: the signature is awaited, no socket yet
NewRelay ==
    [stage |-> "signing", ws |-> "none", closed |-> FALSE, heartbeatInterval |-> FALSE,
     listening |-> FALSE, aborted |-> FALSE, controller |-> "open",
     subscribedLate |-> FALSE]

\* sendSSE(data): nothing is enqueued once closed is set; enqueue throws, and
\* the error is caught, once the controller is closed or the client is gone
SendSSE(r, queue, data) ==
    IF ~r.closed /\ r.controller = "open" /\ ~r.aborted THEN Append(queue, data)
    ELSE queue

\* cleanup(): the socket is closed only if it is open
Cleanup(r) ==
    [r EXCEPT !.closed = TRUE, !.heartbeatInterval = FALSE,
              !.ws = IF r.ws = "open" THEN "closing" ELSE r.ws]

\* a relay that forwards every message it can parse
ForwardedAll(u) == u.msg.json = "object"

\* the 'message' handler forwards what parses and has no heartbeat key
Forwarded(u) == u.msg.json = "object" /\ ~u.heartbeat

\* signWebSocketRequest resolves: the socket is created and the listeners are
\* registered; an abort listener added after the abort never runs
RelaySigned ==
    /\ relay.stage = "signing"
    /\ relay' = [relay EXCEPT !.stage = "running", !.ws = "connecting",
                              !.listening = ~relay.aborted]
    /\ UNCHANGED <<stream, upMsg, hookVars, frame>>

\* signWebSocketRequest rejects: the catch block
RelaySignFailed ==
    /\ relay.stage = "signing"
    /\ Len(stream) < MaxQueue
    /\ stream' = SendSSE(relay, stream, Control("error"))
    /\ relay' = [relay EXCEPT !.stage = "done", !.controller = "closed"]
    /\ UNCHANGED <<upMsg, hookVars, frame>>

\* ws 'open'
UpOpen ==
    /\ relay.ws = "connecting"
    /\ Len(stream) < MaxQueue
    /\ stream' = SendSSE(relay, stream, Control("connected"))
    /\ relay' = [relay EXCEPT !.ws = "open", !.heartbeatInterval = TRUE,
                              !.subscribedLate = relay.aborted]
    /\ UNCHANGED <<upMsg, hookVars, frame>>

\* ws 'message'
UpMessage(u) ==
    /\ relay.ws \in {"open", "closing"}
    /\ Len(stream) < MaxQueue
    /\ upMsg' = u
    /\ stream' = IF ~relay.closed /\ Forwarded(u) THEN SendSSE(relay, stream, u.msg)
                 ELSE stream
    /\ UNCHANGED <<relay, hookVars, frame>>

\* ws 'error': the socket goes down and 'close' follows
UpError ==
    /\ relay.ws \in {"connecting", "open"}
    /\ Len(stream) < MaxQueue
    /\ stream' = SendSSE(relay, stream, Control("error"))
    /\ relay' = [relay EXCEPT !.ws = "closing"]
    /\ UNCHANGED <<upMsg, hookVars, frame>>

\* ws 'close'
UpClose ==
    /\ relay.ws \in {"open", "closing"}
    /\ Len(stream) < MaxQueue
    /\ IF ~relay.closed
       THEN /\ stream' = SendSSE(relay, stream, Control("disconnected"))
            /\ relay' = [Cleanup([relay EXCEPT !.ws = "closed"]) EXCEPT
                             !.controller = "closed"]
       ELSE /\ relay' = [relay EXCEPT !.ws = "closed"]
            /\ UNCHANGED stream
    /\ UNCHANGED <<upMsg, hookVars, frame>>

\* the 30 s interval fires
HeartbeatTick ==
    /\ relay.heartbeatInterval
    /\ Len(stream) < MaxQueue
    /\ stream' = SendSSE(relay, stream, Control("heartbeat"))
    /\ UNCHANGED <<relay, upMsg, hookVars, frame>>

\* the client disconnects: request.signal aborts, what was enqueued is dropped
ClientAbort ==
    /\ ~relay.aborted
    /\ relay' = IF relay.listening THEN Cleanup([relay EXCEPT !.aborted = TRUE])
                ELSE [relay EXCEPT !.aborted = TRUE]
    /\ stream' = <<>>
    /\ UNCHANGED <<upMsg, hookVars, frame>>

\* the client receives the oldest frame enqueued
Deliver ==
    /\ stream # <<>>
    /\ HandleMessage(Head(stream))
    /\ stream' = Tail(stream)
    /\ UNCHANGED <<relay, upMsg>>

----------------------------------------------------------------------------
(* Pure functions of the dashboard (src/unnamed/part_003) *)

\* positions and watched markets in the inputs of allSlugs
MaxList == 2

\* points of a side in the inputs of buildChartData
MaxSeries == 2

\* all sequences over S of length at most n
SeqsUpTo(S, n) == UNION {[1..k -> S] : k \in 0..n}

\* the positions as allSlugs reads them: id 0 is a missing id
MemoPositions == SeqsUpTo([id : 0..2, synced : BOOLEAN], MaxList)

\* the slugs of the watched markets
MemoWatched == SeqsUpTo(1..3, MaxList)

NoMemoIn == [positions |-> <<>>, watched |-> <<>>]

NotComputed == [done |-> FALSE, slugs |-> <<>>]

\* ids of a sequence of positions
RECURSIVE Ids(_)
Ids(ps) == IF ps = <<>> THEN <<>> ELSE <<Head(ps).id>> \o Ids(Tail(ps))

\* positions.filter(p => p.synced && p.id).map(p => p.id)
PositionSlugs(ps) == Ids(SelectSeq(ps, LAMBDA p : p.synced /\ p.id # 0))

\* a de-duplication that keeps the last occurrence of every element
RECURSIVE KeepLast(_)
KeepLast(s) ==
    IF s = <<>> THEN <<>>
    ELSE IF \E i \in 2..Len(s) : s[i] = Head(s) THEN KeepLast(Tail(s))
         ELSE <<Head(s)>> \o KeepLast(Tail(s))

\* [...new Set(s)]: the elements of s in the order of their first insertion
RECURSIVE NewSet(_)
NewSet(s) ==
    IF s = <<>> THEN <<>>
    ELSE LET front == NewSet(SubSeq(s, 1, Len(s) - 1))
             last == s[Len(s)]
         IN IF \E i \in DOMAIN front : front[i] = last THEN front
            ELSE Append(front, last)

\* the useMemo of allSlugs runs on its inputs
MemoAllSlugs ==
    /\ ~memoSlugs.done
    /\ memoSlugs' = [done |-> TRUE,
                    slugs |-> NewSet(PositionSlugs(memoIn.positions) \o memoIn.watched)]
    /\ UNCHANGED <<memoIn, chartIn, chartData>>

\* times and prices of the points of the chart inputs, prices in thousandths
ChartPoints == [time : 1..3, price : {400, 405}]

\* the series of a side: at least one point, times non-decreasing
ChartSeries ==
    {s \in SeqsUpTo(ChartPoints, MaxSeries) :
        /\ s # <<>>
        /\ \A i \in 1..(Len(s) - 1) : s[i].time <= s[i + 1].time}

\* priceHistory[slug]: a series for some of the sides
ChartHistories ==
    UNION {[S -> ChartSeries] : S \in SUBSET Sides}

NotBuilt == [built |-> FALSE, data |-> <<>>]

\* new Set of the times of all points
AllTimestamps(history) ==
    UNION {{history[s][i].time : i \in DOMAIN history[s]} : s \in DOMAIN history}

\* [...allTimestamps].sort((a, b) => a - b)
RECURSIVE SortedTimes(_)
SortedTimes(S) ==
    IF S = {} THEN <<>>
    ELSE LET least == CHOOSE x \in S : \A y \in S : x <= y
         IN <<least>> \o SortedTimes(S \ {least})

\* Math.round(price * 100) of a price in thousandths
RoundPercent(price) == (price + 5) \div 10

\* a search that takes the first point of the side that is not after time
FirstNotAfter(sideHistory, time) ==
    CHOOSE i \in DOMAIN sideHistory :
        /\ sideHistory[i].time <= time
        /\ \A j \in DOMAIN sideHistory : sideHistory[j].time <= time => i <= j

\* [...sideHistory].reverse().find(p => p.time <= time): the index of the
\* last point in the array that is not after time
LastNotAfter(sideHistory, time) ==
    CHOOSE i \in DOMAIN sideHistory :
        /\ sideHistory[i].time <= time
        /\ \A j \in DOMAIN sideHistory : sideHistory[j].time <= time => j <= i

\* the row of a time: a value for every side that has a point not after it
ChartRow(history, time) ==
    [time |-> time,
     values |-> [s \in {x \in DOMAIN history :
                           \E i \in DOMAIN history[x] : history[x][i].time <= time}
                   |-> RoundPercent(history[s][LastNotAfter(history[s], time)].price)]]

\* buildChartData(slug).data
BuildChartData(history) ==
    LET sortedTimes == SortedTimes(AllTimestamps(history))
    IN [k \in DOMAIN sortedTimes |-> ChartRow(history, sortedTimes[k])]

\* a chart is rendered from the history
BuildChart ==
    /\ ~chartData.built
    /\ chartData' = [built |-> TRUE, data |-> BuildChartData(chartIn)]
    /\ UNCHANGED <<memoIn, memoSlugs, chartIn>>

----------------------------------------------------------------------------
(* The series of several markets (src/unnamed/part_003) *)

\* frames in one behaviour
MaxFrames == 3

\* the markets of the stream
Markets == {1, 2}

\* a market without series
NoHistory == [price |-> <<>>, score |-> <<>>]

\* the frames of the stream: one market, with a side A price, a score or both,
\* and the time since the previous frame
MarketFrames ==
    {f \in [slug : Markets, price : {400, 401, Undef}, score : {NoScore, Score(1, 0)},
            dt : {Tick, PriceInterval + 1, ScoreInterval + 1}] :
        f.price # Undef \/ f.score.has}

\* setPrices(prev => ({...prev, [slug]: {sides}})) when the frame has prices
SetPrices(prev, f) == IF f.price # Undef THEN [prev EXCEPT ![f.slug] = f.price] ELSE prev

\* setEvents(prev => ({...prev, [slug]: eventInfo})) when the frame has event info
SetEvents(prev, f) == IF f.score.has THEN [prev EXCEPT ![f.slug] = f.score] ELSE prev

\* the wsPrices merge effect: it runs when wsPrices was set, over every entry
MergeAllPrices(history, ran, entries, t) ==
    [m \in Markets |->
        IF ran THEN [history[m] EXCEPT !.price = MergePrice(@, entries[m], t)]
        ELSE history[m]]

\* the wsEvents merge effect: it runs when wsEvents was set, over every entry
MergeAllScores(history, ran, entries, t) ==
    [m \in Markets |->
        IF ran THEN [history[m] EXCEPT !.score = MergeScore(@, entries[m], t)]
        ELSE history[m]]

\* a frame for one market arrives: handleMessage stores it and the merge
\* effects of the dashboard run
MarketFrame(f) ==
    /\ nFrames < MaxFrames
    /\ nFrames' = nFrames + 1
    /\ frameSlug' = f.slug
    /\ clock' = clock + f.dt
    /\ marketPrices' = SetPrices(marketPrices, f)
    /\ marketEvents' = SetEvents(marketEvents, f)
    /\ marketHistory' =
           MergeAllScores(MergeAllPrices(marketHistory, f.price # Undef, marketPrices', clock'),
                          f.score.has, marketEvents', clock')

----------------------------------------------------------------------------
(* Specification *)

\* a dashboard without positions and with empty series
NoDashboard ==
    /\ positions = <<>>
    /\ latest = "none"
    /\ shown = <<>>
    /\ totalUnrealized = Money(0)
    /\ priceHistory = <<>>
    /\ scoreHistory = <<>>
    /\ now = 0
    /\ appends = 0
    /\ lastIn = NoInput
    /\ relay = NewRelay
    /\ stream = <<>>
    /\ upMsg = NoUpstream
    /\ marketPrices = [m \in Markets |-> Undef]
    /\ marketEvents = [m \in Markets |-> NoScore]
    /\ marketHistory = [m \in Markets |-> NoHistory]
    /\ clock = 0
    /\ nFrames = 0
    /\ frameSlug = 0

\* nothing memoised and no chart built
Unrendered ==
    /\ memoIn = NoMemoIn
    /\ memoSlugs = NotComputed
    /\ chartIn = NoSides
    /\ chartData = NotBuilt

\* the hook before any call
Unconnected ==
    /\ conns = <<>>
    /\ eventSourceRef = 0
    /\ wsRef = 0
    /\ prices = [s \in TrackedSlugs |-> 0]
    /\ events = [s \in TrackedSlugs |-> FALSE]
    /\ connected = FALSE
    /\ error = NullErr
    /\ timers = <<>>
    /\ reconnectTimeoutRef = 0
    /\ reconnectAttemptsRef = 0
    /\ currentSlugsRef = <<>>
    /\ nCalls = 0
    /\ prevUpd = <<>>
    /\ lastReq = <<>>
    /\ run = 0
    /\ torn = FALSE
    /\ frame = NoFrame

Init == Unconnected /\ NoDashboard /\ feed = "free" /\ Unrendered

Next ==
    /\ UNCHANGED dashVars
    /\ \/ \E slugs \in Requests : Connect(slugs)
       \/ \E newSlugs \in Requests : UpdateSubscription(newSlugs)
       \/ Disconnect
       \/ \E allSlugs \in Requests : ConnectEffect(allSlugs)
       \/ \E allSlugs \in Requests : UpdateEffect(allSlugs)
       \/ \E c \in DOMAIN conns : OnOpen(c)
       \/ \E c \in DOMAIN conns : MsgConnected(c)
       \/ \E c \in DOMAIN conns : MsgDisconnected(c)
       \/ \E c \in DOMAIN conns : MsgHeartbeat(c)
       \/ \E c \in DOMAIN conns : MsgError(c)
       \/ \E c \in DOMAIN conns : RelayAuthFail(c)
       \/ \E c \in DOMAIN conns, slug \in TrackedSlugs, px \in PriceVals, ev \in BOOLEAN :
              MsgData(c, slug, px, ev)
       \/ \E c \in DOMAIN conns : OnError(c)
       \/ \E t \in DOMAIN timers : ReconnectTimer(t)

Spec == Init /\ [][Next]_vars

NextWS ==
    /\ UNCHANGED dashVars
    /\ \/ \E slugs \in Requests : ManualConnectWS(slugs)
       \/ \E newSlugs \in Requests : UpdateSubscriptionWS(newSlugs)
       \/ DisconnectWS
       \/ \E c \in DOMAIN conns : AuthOk(c)
       \/ \E c \in DOMAIN conns : AuthFail(c)
       \/ \E c \in DOMAIN conns : WsOpen(c)
       \/ \E c \in DOMAIN conns : WsMsgError(c)
       \/ \E c \in DOMAIN conns, slug \in TrackedSlugs, px \in PriceVals, ev \in BOOLEAN :
              WsMsgData(c, slug, px, ev)
       \/ \E c \in DOMAIN conns : WsError(c)
       \/ \E c \in DOMAIN conns : WsClose(c)
       \/ \E t \in DOMAIN timers : WsTimer(t)

SpecWS == Init /\ [][NextWS]_vars

\* the stream is open on the tracked markets: just connected, or reopened
\* after two failures and not yet confirmed by the relay
OpenStream ==
    /\ conns = <<[NewEventSource(<<1>>) EXCEPT !.st = "open"]>>
    /\ eventSourceRef = 1
    /\ wsRef = 0
    /\ prices = [s \in TrackedSlugs |-> NoEntry]
    /\ events = [s \in TrackedSlugs |-> FALSE]
    /\ \/ connected = FALSE /\ error = ConnErr /\ reconnectAttemptsRef = 2 /\ run = 2
       \/ connected = FALSE /\ error = NullErr /\ reconnectAttemptsRef = 0 /\ run = 0
    /\ timers = <<>>
    /\ reconnectTimeoutRef = 0
    /\ currentSlugsRef = <<1>>
    /\ nCalls = 1
    /\ prevUpd = <<>>
    /\ lastReq = <<1>>
    /\ torn = FALSE
    /\ frame = NoFrame

InitFrames == OpenStream /\ NoDashboard /\ feed = "free" /\ Unrendered

NextFrames ==
    \E f \in Frames : HandleMessage(f) /\ UNCHANGED <<valueVars, seriesVars, laterVars>>

SpecFrames == InitFrames /\ [][NextFrames]_vars

NextValue ==
    \/ \E f \in ValueFrames : PriceFrame(f)
    \/ \E side \in Sides, cashValue \in CashValues : AutoSync(side, cashValue)
    \/ \E side \in Sides, cashValue \in CashValues, priceA \in RestPrices :
           SyncPositions(side, cashValue, priceA)
    \/ AddPosition

\* the dashboard on an open stream
SpecValue == InitFrames /\ [][NextValue]_vars

\* the series of a dashboard that has just been opened, under one of the feeds
InitSeries ==
    /\ OpenStream /\ reconnectAttemptsRef = 0
    /\ NoDashboard
    /\ feed \in {"free", "stream", "rest"}
    /\ Unrendered

NextSeries ==
    /\ UNCHANGED <<hookVars, frame, valueVars, laterVars>>
    /\ \/ \E in \in StreamInputs : StreamMerge(in)
       \/ \E in \in RestInputs : UpdatePriceHistory(in)

SpecSeries == InitSeries /\ [][NextSeries]_vars

NextRelay ==
    /\ UNCHANGED <<valueVars, seriesVars, pureVars, marketVars>>
    /\ \/ RelaySigned
       \/ RelaySignFailed
       \/ UpOpen
       \/ \E u \in Upstream : UpMessage(u)
       \/ UpError
       \/ UpClose
       \/ HeartbeatTick
       \/ ClientAbort
       \/ Deliver

\* one request to the relay, from a client whose stream is open
SpecRelay == InitFrames /\ [][NextRelay]_vars

\* allSlugs on every list of positions and of watched markets
InitSlugs ==
    /\ Unconnected /\ NoDashboard /\ feed = "free"
    /\ memoIn \in [positions : MemoPositions, watched : MemoWatched]
    /\ memoSlugs = NotComputed
    /\ chartIn = NoSides
    /\ chartData = NotBuilt

NextSlugs ==
    MemoAllSlugs /\ UNCHANGED <<hookVars, frame, valueVars, seriesVars, relayVars, marketVars>>

SpecSlugs == InitSlugs /\ [][NextSlugs]_vars

\* buildChartData on every price history of a market
InitChart ==
    /\ Unconnected /\ NoDashboard /\ feed = "free"
    /\ memoIn = NoMemoIn
    /\ memoSlugs = NotComputed
    /\ chartIn \in ChartHistories
    /\ chartData = NotBuilt

NextChart ==
    BuildChart /\ UNCHANGED <<hookVars, frame, valueVars, seriesVars, relayVars, marketVars>>

SpecChart == InitChart /\ [][NextChart]_vars

NextMarkets ==
    /\ UNCHANGED <<hookVars, frame, valueVars, seriesVars, relayVars, pureVars>>
    /\ \E f \in MarketFrames : MarketFrame(f)

\* the series of two markets on an open stream
SpecMarkets == InitFrames /\ [][NextMarkets]_vars

----------------------------------------------------------------------------
(* Properties of the stream transport *)

\* the slugs a connection is subscribed to, or will subscribe to when it opens
ConnSlugs(c) ==
    IF conns[c].url # <<>> THEN RelaySlugs(conns[c].url)
    ELSE IF conns[c].st = "open" THEN conns[c].sub
    ELSE StrList(currentSlugsRef)

\* the first ten of a requested list, in the order requested
FirstTen(L) == SubSeq(L, 1, IF Len(L) > 10 THEN 10 ELSE Len(L))

\* C1: once a non-empty set was requested, the list the automatic retries use
\* and the slug list of the newest connection that is open or being opened
\* equal, as sets, the first-10 truncation of the most recently requested set.
C1_ActiveIsLastRequested ==
    lastReq # <<>> =>
        /\ Range(currentSlugsRef) = Range(FirstTen(lastReq))
        /\ (conns # <<>> /\ conns[Len(conns)].st \in {"fetching", "connecting", "open"}) =>
               Range(ConnSlugs(Len(conns))) = Range(StrList(FirstTen(lastReq)))

\* C2: at most one connection is connecting or open at any time.
C2_AtMostOneLive == Cardinality(LiveConns) <= 1

\* C3 as stated: an updateSubscription call directly after another one with
\* the same set of ids, in any order, leaves the connection, the pending
\* reconnect timer and the attempt counter unchanged.
C3_SameSetSecondCallNoOp ==
    [][(Len(prevUpd') = 2 /\ Range(prevUpd'[1]) = Range(prevUpd'[2])) =>
          UNCHANGED <<conns, eventSourceRef, timers, reconnectTimeoutRef,
                      reconnectAttemptsRef>>]_vars

\* C3: an updateSubscription call directly after another one whose list has
\* the same first ten ids, in any order, leaves the connection, the pending
\* reconnect timer and the attempt counter unchanged.
C3_SameFirstTenSecondCallNoOp ==
    [][(Len(prevUpd') = 2 /\
        Range(FirstTen(prevUpd'[1])) = Range(FirstTen(prevUpd'[2]))) =>
          UNCHANGED <<conns, eventSourceRef, timers, reconnectTimeoutRef,
                      reconnectAttemptsRef>>]_vars

\* two calls in a row with the same eleven ids in another order and the same
\* first ten, one connection open
C3_Witness ==
    /\ Len(prevUpd) = 2 /\ prevUpd[1] # prevUpd[2] /\ Len(prevUpd[2]) > 10
    /\ Range(FirstTen(prevUpd[1])) = Range(FirstTen(prevUpd[2]))
    /\ Len(conns) = 1 /\ eventSourceRef = 1

\* the delays of the first to the fifth automatic reconnect, in ms
BackoffSchedule == <<1000, 2000, 4000, 8000, 16000>>

C5_TerminalNoTimer == error = TerminalErrSSE => timers = <<>>

\* C6: while disconnect() is the latest caller operation there is no
\* connection, the handle is cleared, connected is false and the counter is 0.
C6_TornDownStaysDown ==
    torn => /\ conns = <<>>
            /\ eventSourceRef = 0
            /\ ~connected
            /\ reconnectAttemptsRef = 0

\* C7: at most one reconnect timer is pending at any time.
C7_AtMostOneTimer == Len(timers) <= 1

\* an event of the superseded attempt c: the completion of its credential
\* fetch, its open, a frame, its error or its close
StaleEvent(c) ==
    /\ conns[c].stale
    /\ \/ AuthOk(c) \/ AuthFail(c) \/ WsOpen(c) \/ WsMsgError(c)
       \/ WsError(c) \/ WsClose(c)
       \/ \E slug \in TrackedSlugs, px \in PriceVals, ev \in BOOLEAN :
              WsMsgData(c, slug, px, ev)

\* C8: no event of an attempt that a newer request superseded while it was
\* in flight changes prices, events, connected, error, the attempt counter,
\* the reconnect timer or the connection handle.
C8_StaleEventsIgnored ==
    [][\A c \in DOMAIN conns :
          StaleEvent(c) =>
              UNCHANGED <<prices, events, connected, error, reconnectAttemptsRef,
                          reconnectTimeoutRef, timers, wsRef>>]_vars

\* the counter goes up by one exactly when a reconnect is scheduled
CounterCountsReconnects ==
    (Len(timers') > Len(timers)) <=> (reconnectAttemptsRef' = reconnectAttemptsRef + 1)

\* a successful open of the stream
SuccessfulOpen == \E c \in DOMAIN conns : MsgConnected(c)

\* a manual connect()
ManualConnect == \E slugs \in Requests : Connect(slugs)

\* an updateSubscription that reconnects with a changed set
Resubscribe ==
    \E newSlugs \in Requests :
        UpdateSubscription(newSlugs) /\ currentSlugsRef' # currentSlugsRef

\* C9 as stated: the counter goes up by one exactly when a reconnect is
\* scheduled, is 0 after every successful open and every connect(), and
\* changes in no other step.
C9_CounterTwoWays ==
    [][/\ CounterCountsReconnects
       /\ reconnectAttemptsRef' # 0 => ~(SuccessfulOpen \/ ManualConnect)
       /\ reconnectAttemptsRef' # reconnectAttemptsRef =>
              \/ reconnectAttemptsRef' = reconnectAttemptsRef + 1
              \/ SuccessfulOpen \/ ManualConnect]_vars

\* C9: the counter goes up by one exactly when a reconnect is scheduled, is 0
\* after every successful open, connect(), disconnect() and updateSubscription
\* with a changed set, and changes in no other step.
C9_CounterFourWays ==
    [][/\ CounterCountsReconnects
       /\ reconnectAttemptsRef' # 0 =>
              ~(SuccessfulOpen \/ ManualConnect \/ Disconnect \/ Resubscribe)
       /\ reconnectAttemptsRef' # reconnectAttemptsRef =>
              \/ reconnectAttemptsRef' = reconnectAttemptsRef + 1
              \/ SuccessfulOpen \/ ManualConnect \/ Disconnect \/ Resubscribe]_vars

\* two reconnects were scheduled one after the other, the second is pending
C9_Witness == reconnectAttemptsRef = 2 /\ Len(timers) = 1 /\ run = 2

\* every connection requests the list the retries use, at most ten ids, and
\* the relay's subscribe directive, once sent, is that list
SubscribedAsRequested ==
    /\ Len(currentSlugsRef) <= 10
    /\ \A c \in DOMAIN conns :
           /\ RelaySlugs(conns[c].url) = StrList(currentSlugsRef)
           /\ conns[c].up = "open" => conns[c].sub = StrList(currentSlugsRef)

\* C10: every connection's request and subscribe directive carry exactly the
\* list in use, which has at most ten ids; connect() with more than ten ids
\* makes the list in use the first ten in their order, and updateSubscription
\* with more than ten does the same or nothing.
C10_FirstTenInOrder ==
    /\ []SubscribedAsRequested
    /\ [][nCalls' # nCalls => \A L \in Requests :
             /\ (Len(L) > 10 /\ Connect(L)) => currentSlugsRef' = FirstTen(L)
             /\ (Len(L) > 10 /\ UpdateSubscription(L)) =>
                    \/ currentSlugsRef' = FirstTen(L)
                    \/ UNCHANGED <<conns, currentSlugsRef>>]_vars

\* a request of eleven ids, the last one first, is subscribed upstream
C10_Witness ==
    /\ Len(lastReq) > 10 /\ lastReq[1] # 1
    /\ \E c \in DOMAIN conns :
           conns[c].up = "open" /\ conns[c].sub = StrList(SubSeq(lastReq, 1, 10))

\* C11: the step that ends an attempt whose credential fetch failed (the
\* catch block of connect(), or the stream error that follows the relay's
\* failed signature) leaves an error set, removes the attempt and schedules
\* no reconnect timer.
C11_AuthFailureNotRetried ==
    [][\A c \in DOMAIN conns :
          (AuthFail(c) \/ (conns[c].up = "failed" /\ OnError(c))) =>
              /\ error' # NullErr
              /\ timers' = timers
              /\ Len(conns') < Len(conns)]_vars

\* a frame that is not valid JSON, or that has no type and none of the keys
\* a matcher looks for, or a generic update without a slug
Malformed(f) ==
    \/ f.json \in {"invalid", "null"}
    \/ /\ f.json = "object" /\ f.type = "none"
       /\ \/ f.shape = "none"
          \/ f.shape \in {"sides", "outcomes"} /\ f.slug = 0

\* C12: handling a malformed frame leaves prices, events, connected, error,
\* the attempt counter, the reconnect timers and the connection unchanged.
C12_MalformedDropped ==
    [][Malformed(frame') =>
          UNCHANGED <<prices, events, connected, error, reconnectAttemptsRef,
                      timers, reconnectTimeoutRef, conns, eventSourceRef>>]_vars

\* text that is not JSON arrived after a price was stored and the stream was
\* confirmed; both are still there
C12_Witness ==
    /\ frame.json = "invalid"
    /\ connected /\ error = NullErr
    /\ prices[1].currentPx = 60

\* C13: error is null, the terminal reconnect failure or a credential
\* failure; a transport error that is retried never shows in it.
C13_ErrorOnlyWhenActionable == error \in {NullErr, TerminalErrSSE, SignErr}

\* a data frame for a tracked market with the aggregate price and no side price
OnlyAggregate(f) ==
    /\ f.json = "object" /\ f.type = "none" /\ f.shape = "marketDataLite"
    /\ f.slug # 0 /\ f.currentPx # Undef
    /\ f.outcomes = NoSides

\* C14: after a frame for market s that carries only the aggregate price v,
\* prices[s] has currentPx v and the inferred side prices v and 1 - v.
C14_AggregateInferred ==
    [][OnlyAggregate(frame') =>
          /\ prices'[frame'.slug].currentPx = frame'.currentPx
          /\ prices'[frame'.slug].inferredYesPrice = frame'.currentPx
          /\ prices'[frame'.slug].inferredNoPrice = Unit - frame'.currentPx]_vars

C14_Witness ==
    /\ OnlyAggregate(frame) /\ frame.currentPx = 60
    /\ prices[frame.slug].inferredYesPrice = 60
    /\ prices[frame.slug].inferredNoPrice = 40

\* the last known price of a position: the REST side price of the latest
\* sync when it has one, else the price derived from cashValue
LastKnown(p) ==
    IF p.marketPrice \notin {NullPx, Undef} THEN p.marketPrice ELSE p.currentPrice

\* the market of the position has an aggregate price and no side price
OnlyCurrentPx(p) ==
    /\ DOMAIN WsData(p, prices).sides = {}
    /\ WsData(p, prices).currentPx \in 0..Unit

\* C15: with only currentPx for the market, the price shown for a position is
\* the one of currentPx and 1 - currentPx closer to its last known price.
C15_InferenceClosest ==
    \A i \in DOMAIN positions :
        OnlyCurrentPx(positions[i]) =>
            LET current == WsData(positions[i], prices).currentPx
                ref == LastKnown(positions[i])
            IN /\ shown[i].price \in {current, Unit - current}
               /\ Abs(shown[i].price - ref) <= Abs(current - ref)
               /\ Abs(shown[i].price - ref) <= Abs((Unit - current) - ref)

\* a rule of the precedence has a value to give
HasValue(x) == x \notin {Undef, NullPx}

\* every price of the entry was parsed to a number or is missing
NoNaN(wsData) ==
    /\ wsData.currentPx # NaN
    /\ \A s \in DOMAIN wsData.sides : wsData.sides[s] # NaN

\* C16: the own-side price when the entry has one, else the inference from
\* currentPx when the entry has one, else the snapshot price.
C16_StrictPrecedence ==
    \A i \in DOMAIN positions :
        LET p == positions[i]
            wsData == WsData(p, prices)
        IN NoNaN(wsData) => shown[i].price =
              IF p.side \in DOMAIN wsData.sides /\ HasValue(wsData.sides[p.side])
              THEN wsData.sides[p.side]
              ELSE IF HasValue(wsData.currentPx)
                   THEN InferLive(wsData.currentPx, RefPrice(p))
                   ELSE p.currentPrice

\* C17: no render shows NaN as a price, a market value or the unrealized
\* P&L, and without a live price the snapshot price is shown.
C17_ValuationTotal ==
    /\ ~totalUnrealized.nan
    /\ \A i \in DOMAIN positions :
          /\ shown[i].price # NaN /\ shown[i].value # NaN
          /\ WsData(positions[i], prices) = NoEntry =>
                shown[i].price = positions[i].currentPrice

\* sum of cashValue - cost over the synced positions and of the entered
\* value - cost over the manual ones, first n positions
RECURSIVE SnapshotUnrealized(_, _)
SnapshotUnrealized(ps, n) ==
    IF n = 0 THEN 0
    ELSE SnapshotUnrealized(ps, n - 1) +
         (IF ps[n].synced THEN ps[n].currentValue
          ELSE ps[n].shares * ps[n].currentPrice) - ps[n].cost

\* C18: when a position sync is the latest input, the total unrealized P&L is
\* the one of the snapshot cashValue.
C18_SnapshotWhenFresher ==
    latest = "sync" /\ ~totalUnrealized.nan =>
        totalUnrealized = Money(SnapshotUnrealized(positions, Len(positions)))

\* the series after one more point: the point is added at the end and a
\* full series loses its first point
WithPoint(series, point) ==
    IF Len(series) < MaxPoints THEN Append(series, point)
    ELSE Append(Tail(series), point)

\* C19: in a stream merge, a value equal to the last point's no later than
\* the minimum interval after it (5 s for prices, 15 s for scores) leaves the
\* series as it is, and a value that differs from the last point's adds
\* exactly one point.
C19_AppendDedup ==
    [][lastIn'.op = "stream" /\ appends' = appends + 1 =>
          LET price == lastIn'.price
              score == lastIn'.score
              lastPrice == priceHistory[Len(priceHistory)]
              lastScore == scoreHistory[Len(scoreHistory)]
          IN /\ price \notin {NullPx, Undef} /\ priceHistory # <<>> =>
                  IF price = lastPrice.price
                  THEN now' - lastPrice.time <= PriceInterval =>
                           priceHistory' = priceHistory
                  ELSE priceHistory' =
                           WithPoint(priceHistory, [time |-> now', price |-> price])
             /\ score.has /\ scoreHistory # <<>> =>
                  IF score.home = lastScore.home /\ score.away = lastScore.away
                  THEN now' - lastScore.time <= ScoreInterval =>
                           scoreHistory' = scoreHistory
                  ELSE scoreHistory' =
                           WithPoint(scoreHistory, [time |-> now', home |-> score.home,
                                                    away |-> score.away])]_vars

C19_Witness ==
    /\ feed = "free" /\ appends = 3 /\ lastIn.op = "stream"
    /\ Len(priceHistory) = 2
    /\ lastIn.price = priceHistory[2].price
    /\ priceHistory[2].price # priceHistory[1].price
    /\ now - priceHistory[2].time = PriceInterval

\* C20: no series holds more than 500 points, and the series a stream of
\* distinct values builds is its most recent 500 points in arrival order.
C20_SeriesCapped ==
    /\ Len(priceHistory) <= MaxPoints
    /\ Len(scoreHistory) <= MaxPoints
    /\ feed = "stream" =>
          /\ Len(priceHistory) = IF appends < MaxPoints THEN appends ELSE MaxPoints
          /\ \A i \in DOMAIN priceHistory :
                priceHistory[i].price = appends - Len(priceHistory) + i

\* the times of a series never decrease from one point to the next
TimeOrdered(series) ==
    \A i \in 1..(Len(series) - 1) : series[i].time <= series[i + 1].time

\* next is series with nothing changed, or with one point added at the end
\* at time t and at most one point removed from the front
GrownAtEnd(series, next, t) ==
    \/ next = series
    \/ /\ next # <<>>
       /\ next[Len(next)].time = t
       /\ \E k \in {0, 1} :
             /\ k <= Len(series)
             /\ SubSeq(next, 1, Len(next) - 1) = SubSeq(series, k + 1, Len(series))

\* C21: the point times of every series are non-decreasing, and a merge from
\* the stream or from REST only adds a point at the end, stamped with the
\* time of the merge, and only removes from the front.
C21_TimesNonDecreasing ==
    /\ [](TimeOrdered(priceHistory) /\ TimeOrdered(scoreHistory))
    /\ [][/\ GrownAtEnd(priceHistory, priceHistory', now')
          /\ GrownAtEnd(scoreHistory, scoreHistory', now')]_vars

C21_Witness ==
    /\ feed = "stream" /\ appends = MaxPoints + 2
    /\ Len(priceHistory) = MaxPoints
    /\ priceHistory[1].time < priceHistory[MaxPoints].time
    /\ priceHistory[MaxPoints].time = now

\* C22: the relay enqueues nothing for an upstream message with a heartbeat
\* key, and a frame of type heartbeat leaves the client's prices, events,
\* connected, error, attempt counter, timers and connection as they are, also
\* when it carries market data.
C22_HeartbeatNonEvent ==
    [][/\ (\E u \in Upstream : u.heartbeat /\ UpMessage(u)) => stream' = stream
       /\ (Deliver /\ frame'.type = "heartbeat") =>
              UNCHANGED <<prices, events, connected, error, reconnectAttemptsRef,
                          timers, reconnectTimeoutRef, conns, eventSourceRef>>]_vars

C22_Witness ==
    /\ upMsg.heartbeat /\ upMsg.msg.shape = "marketDataLite"
    /\ frame.json = "object" /\ frame.type = "heartbeat" /\ frame.shape = "marketDataLite"
    /\ connected /\ prices[1] = NoEntry
    /\ stream = <<>>

\* C29: once the client has disconnected the 30 s interval is not running
\* and no subscribe directive is sent.
C29_QuietAfterAbort ==
    relay.aborted => ~relay.heartbeatInterval /\ ~relay.subscribedLate

\* the index of the first occurrence of x in s
FirstIndex(s, x) == CHOOSE i \in DOMAIN s : s[i] = x /\ \A j \in 1..(i - 1) : s[j] # x

\* C23: allSlugs holds every market id of the synced positions and of the
\* watched markets once, in the order of the first occurrences in the
\* positions followed by the watched markets.
C23_FirstSeenOrder ==
    memoSlugs.done =>
        LET all == PositionSlugs(memoIn.positions) \o memoIn.watched
            slugs == memoSlugs.slugs
        IN /\ {slugs[i] : i \in DOMAIN slugs} = {all[i] : i \in DOMAIN all}
           /\ \A i, j \in DOMAIN slugs :
                 i < j => FirstIndex(all, slugs[i]) < FirstIndex(all, slugs[j])

C23_Witness ==
    /\ memoSlugs.done
    /\ memoIn.positions = <<[id |-> 2, synced |-> TRUE], [id |-> 1, synced |-> TRUE]>>
    /\ memoIn.watched = <<1, 3>>
    /\ memoSlugs.slugs = <<2, 1, 3>>

\* the rows of a chart are one per time of a point, in increasing order of
\* time, and a side has a value in a row exactly if it has a point not after
\* the row's time
ChartAxis ==
    LET data == chartData.data IN
    /\ {data[k].time : k \in DOMAIN data} =
          UNION {{chartIn[s][i].time : i \in DOMAIN chartIn[s]} : s \in DOMAIN chartIn}
    /\ \A k \in 1..(Len(data) - 1) : data[k].time < data[k + 1].time
    /\ \A k \in DOMAIN data :
          DOMAIN data[k].values =
              {s \in DOMAIN chartIn : \E i \in DOMAIN chartIn[s] :
                                          chartIn[s][i].time <= data[k].time}

\* the price, in thousandths, of the latest point of side s not after time
CarriedPrice(s, time) ==
    LET i == CHOOSE i \in DOMAIN chartIn[s] :
                 /\ chartIn[s][i].time <= time
                 /\ \A j \in DOMAIN chartIn[s] : chartIn[s][j].time <= time => j <= i
    IN chartIn[s][i].price

\* C25 as stated: every side of a row has the price of its latest point not
\* after the row's time.
C25_ChartCarriesPrice ==
    chartData.built =>
        /\ ChartAxis
        /\ \A k \in DOMAIN chartData.data : \A s \in DOMAIN chartData.data[k].values :
              10 * chartData.data[k].values[s] = CarriedPrice(s, chartData.data[k].time)

\* C25: every side of a row has the price of its latest point not after the
\* row's time as a whole percentage, rounded to the nearest.
C25_ChartCarriesPercent ==
    chartData.built =>
        /\ ChartAxis
        /\ \A k \in DOMAIN chartData.data : \A s \in DOMAIN chartData.data[k].values :
              LET diff == 10 * chartData.data[k].values[s] -
                              CarriedPrice(s, chartData.data[k].time)
              IN -5 < diff /\ diff <= 5

C25_Witness ==
    /\ chartData.built
    /\ DOMAIN chartIn = Sides
    /\ chartIn["A"] = <<[time |-> 1, price |-> 405], [time |-> 3, price |-> 400]>>
    /\ chartIn["B"] = <<[time |-> 2, price |-> 400]>>
    /\ Len(chartData.data) = 3
    /\ chartData.data[2].values["A"] = 41
    /\ chartData.data[1].values = [s \in {"A"} |-> 41]

\* a price in [0,1], or no price
InRangeOrMissing(x) == x \in (0..Unit) \cup {Undef, NullPx}

\* C24: no price outside [0,1] and no NaN is in the latest-price map or is
\* the price shown for a position.
C24_OutOfRangeIsMissing ==
    /\ \A slug \in TrackedSlugs :
          /\ InRangeOrMissing(prices[slug].currentPx)
          /\ \A s \in DOMAIN prices[slug].sides : InRangeOrMissing(prices[slug].sides[s])
    /\ \A i \in DOMAIN positions : InRangeOrMissing(shown[i].price)

\* the entry of market slug holds a price for side s that a frame delivered
StoredSide(slug, s) ==
    s \in DOMAIN prices[slug].sides /\ prices[slug].sides[s] \in 0..Unit

\* C27: when the latest frame for a market carried only the aggregate price,
\* the price shown for a position on that market is that price or its
\* complement, also when an earlier frame stored a price for the position's
\* side.
C27_LatestFrameWins ==
    OnlyAggregate(frame) /\ frame.currentPx \in 0..Unit =>
        \A i \in DOMAIN positions :
            positions[i].id = frame.slug /\ StoredSide(frame.slug, positions[i].side) =>
                shown[i].price \in {frame.currentPx, Unit - frame.currentPx}

\* C28: an updateSubscription call with a non-empty list, made while
\* disconnect() is the latest caller operation, leaves the hook holding a
\* connection whose slugs are, as a set, the first ten of the list.
C28_ResubscribeAfterDisconnect ==
    [][(torn /\ prevUpd' # <<>> /\ prevUpd'[Len(prevUpd')] # <<>>) =>
          /\ eventSourceRef' \in DOMAIN conns'
          /\ Range(RelaySlugs(conns'[eventSourceRef'].url)) =
                 Range(StrList(FirstTen(prevUpd'[Len(prevUpd')])))]_vars

\* C30: connected is true only while the connection the hook holds has
\* itself delivered the 'connected' frame and has not failed or closed since.
C30_ConnectedMeansActiveConnected ==
    connected =>
        /\ eventSourceRef \in DOMAIN conns
        /\ conns[eventSourceRef].st = "open"
        /\ conns[eventSourceRef].up = "open"

\* C26: a frame appends no point to a series of a market other than its own.
C26_SeriesIsolation ==
    [][\A m \in Markets : m # frameSlug' => marketHistory'[m] = marketHistory[m]]_vars

====
